---------------------------- MODULE Spec2Model ----------------------------
(***************************************************************************)
(* Webhook dispatch of Formerr-FastAPI: app/webhooks/service.py            *)
(* (WebhookService) and its caller in app/database/services.py             *)
(* (SubmissionsService.create_submission).                                 *)
(*                                                                         *)
(* The store (PostgreSQL) holds forms, submissions and webhooks.  Every    *)
(* service call runs in its own AsyncSession: objects are loaded by a      *)
(* query, changed in memory, and written by the commit.  Calls of          *)
(* different requests interleave at their awaits.                          *)
(***************************************************************************)
EXTENDS Integers, Sequences, FiniteSets, TLC

\* ------------------------------------------------------------------ bounds
MaxCalls == 2         \* service calls made in one behaviour
MaxWebhooks == 2      \* webhooks created in one behaviour

\* ------------------------------------------------------------- value sets
\* Values that may be None are tuples, so that None compares with all of them:
\* Python's None, a str, a datetime
None == <<"None">>
Str(s) == <<"str", s>>
Datetime(t) == <<"utc", t>>

Calls == 1..MaxCalls
Users == {1, 2}
FormIds == {"f1", "f2"}
\* owner of each form (forms are created by FormsService, outside this model)
FormOwner == [f \in FormIds |-> IF f = "f1" THEN 1 ELSE 2]

\* WebhookEvent values used here (app/webhooks/models.py)
SUBMISSION_CREATED == "submission.created"
FORM_UPDATED == "form.updated"
WebhookEvent == {SUBMISSION_CREATED, FORM_UPDATED}

\* The requests POST /forms/{form_id}/webhooks made here: the form and the
\* WebhookCreate body.  Every form, both values of active, a list with and a
\* list without submission.created, and a secret that is supplied, absent
\* or empty occur.
WebhookCreates ==
    { [ form_id |-> "f1", url |-> "https://a.example/hook",
        events |-> <<FORM_UPDATED, SUBMISSION_CREATED>>,
        secret |-> Str("whsec_abc"), active |-> TRUE ],
      [ form_id |-> "f1", url |-> "https://b.example/hook",
        events |-> <<FORM_UPDATED, SUBMISSION_CREATED>>,
        secret |-> None, active |-> TRUE ],
      [ form_id |-> "f1", url |-> "https://a.example/hook",
        events |-> <<FORM_UPDATED>>,
        secret |-> None, active |-> TRUE ],
      [ form_id |-> "f1", url |-> "https://b.example/hook",
        events |-> <<FORM_UPDATED, SUBMISSION_CREATED>>,
        secret |-> Str(""), active |-> FALSE ],
      [ form_id |-> "f2", url |-> "https://a.example/hook",
        events |-> <<FORM_UPDATED, SUBMISSION_CREATED>>,
        secret |-> Str("whsec_abc"), active |-> TRUE ] }

\* What the network does with one POST: an HTTP response, a timeout
\* (httpx.TimeoutException), another transport fault, or a fault while the
\* client is closed after the request (escapes _send_webhook).
StatusCodes == {200, 399, 400}
ElapsedMs == {12}
Net == [kind : {"response"}, status_code : StatusCodes, elapsed_ms : ElapsedMs]
       \cup { [kind |-> "timeout"] }
       \cup { [kind |-> "error", msg |-> "connection refused"] }
       \cup { [kind |-> "raise", msg |-> "client closed"] }

VARIABLES
    forms,        \* store: form id -> [owner_id, submission_count, last_submission]
    submissions,  \* store: set of committed submissions
    webhooks,     \* store: webhook id -> row of table webhooks
    created,      \* store: number of webhook rows stored so far
    pc,           \* per call: position in the code
    op,           \* per call: operation and its arguments
    found,        \* per call: webhooks returned by the query (ids, in order)
    sess,         \* per call: the session's Webhook objects (id -> attributes)
    loaded,       \* per call: attribute values as loaded by the query
    k,            \* per call: number of loop iterations of trigger_webhooks done
    envelope,     \* per call: webhook_payload
    results,      \* per call: results list of trigger_webhooks; result of
                  \* test_webhook
    tret,         \* per call: what trigger_webhooks returned or raised
    ret,          \* per call: what the operation returned or raised
    posts         \* per call: HTTP requests issued, in order

vars == << forms, submissions, webhooks, created, pc, op, found, sess,
           loaded, k, envelope, results, tret, ret, posts >>

store == << forms, submissions, webhooks, created >>
locals == << found, sess, loaded, k, envelope, results, tret, ret, posts >>

NoRet == [kind |-> "none"]
Raised(msg) == [kind |-> "raise", error |-> msg]
Returned(v) == [kind |-> "return", value |-> v]


\* ------------------------------------------------------------ pure helpers
\* The places where the code reads the clock or draws a uuid: the creation
\* of the j-th webhook, and the steps of call c.  A reading is named by its
\* place, so readings taken at different places are different values.
AtCreate(j, what) == <<"create_webhook", j, what, 0>>
AtCall(c, what, i) == <<"call", c, what, i>>

\* datetime.utcnow() read at place p
Utcnow(p) == Datetime(p)

\* datetime.isoformat()
Isoformat(d) == <<"iso", d>>

\* Python truthiness of an Optional[str]
Truthy(s) == s \notin {None, Str("")}

\* str.encode('utf-8'): the bytes of a string
Utf8(s) == <<"utf-8", s>>

\* hmac.new(key, msg, hashlib.sha256).hexdigest(): a keyed digest, equal for
\* equal (key, msg) and different otherwise
HmacSha256Hex(key, msg) == <<"hmac-sha256", key, msg>>

\* uuid.uuid4() drawn at place p: all draws differ
Uuid4(p) == <<"uuid", p>>

\* WebhookService.generate_webhook_id
GenerateWebhookId(now, u) == <<"webhook", now, u>>

\* WebhookService.generate_secret
GenerateSecret(u) == <<"str", "whsec_", u>>

\* SubmissionsService.generate_submission_id
GenerateSubmissionId(now, u) == <<"sub", now, u>>

\* WebhookService.create_signature
CreateSignature(payload_str, secret) ==
    <<"sha256=", HmacSha256Hex(Utf8(secret), Utf8(payload_str))>>

\* json.dumps(payload, ensure_ascii=False): the members in the dict's
\* insertion order
JsonDumps(payload) ==
    << <<"event", payload.event>>,
       <<"timestamp", payload.timestamp>>,
       <<"form_id", payload.form_id>>,
       <<"data", payload.data>>,
       <<"delivery_id", payload.delivery_id>>,
       <<"source", payload.source>> >>

\* Webhook.events.contains([event.value]) on the JSONB list
Contains(events, e) == \E i \in 1..Len(events) : events[i] = e

\* all orders in which a SELECT without ORDER BY may return the rows S
Orders(S) ==
    { s \in [1..Cardinality(S) -> S] :
        \A i, j \in 1..Cardinality(S) : i # j => s[i] # s[j] }

\* ------------------------------------------------------------ _send_webhook
\* json.dumps(payload, sort_keys=True): another serialization of the payload
JsonDumpsSorted(payload) ==
    << <<"data", payload.data>>,
       <<"delivery_id", payload.delivery_id>>,
       <<"event", payload.event>>,
       <<"form_id", payload.form_id>>,
       <<"source", payload.source>>,
       <<"timestamp", payload.timestamp>> >>

\* SendHeaders signing a second serialization of the payload instead of
\* the string that is sent
SendHeadersResigned(webhook, payload, payload_str) ==
    LET base == [ ct \in {"Content-Type"} |-> "application/json" ]
                @@ ("User-Agent" :> "Formerr-Webhooks/1.0 (BrunoV7)")
                @@ ("X-Formerr-Event" :> payload.event)
                @@ ("X-Formerr-Delivery" :> payload.delivery_id)
                @@ ("X-Formerr-Timestamp" :> payload.timestamp)
    IN IF Truthy(webhook.secret)
       THEN base @@ ("X-Formerr-Signature"
                        :> CreateSignature(JsonDumpsSorted(payload),
                                           webhook.secret))
       ELSE base

\* SendHeaders testing "webhook.secret is not None": an empty secret signs
SendHeadersSignsEmpty(webhook, payload, payload_str) ==
    LET base == [ ct \in {"Content-Type"} |-> "application/json" ]
                @@ ("User-Agent" :> "Formerr-Webhooks/1.0 (BrunoV7)")
                @@ ("X-Formerr-Event" :> payload.event)
                @@ ("X-Formerr-Delivery" :> payload.delivery_id)
                @@ ("X-Formerr-Timestamp" :> payload.timestamp)
    IN IF webhook.secret # None
       THEN base @@ ("X-Formerr-Signature"
                        :> CreateSignature(payload_str, webhook.secret))
       ELSE base

\* SendHeaders drawing a delivery id of its own for the header
SendHeadersOwnDeliveryId(webhook, payload, payload_str) ==
    LET base == [ ct \in {"Content-Type"} |-> "application/json" ]
                @@ ("User-Agent" :> "Formerr-Webhooks/1.0 (BrunoV7)")
                @@ ("X-Formerr-Event" :> payload.event)
                @@ ("X-Formerr-Delivery" :> Uuid4(<<"send", 0, "header", 0>>))
                @@ ("X-Formerr-Timestamp" :> payload.timestamp)
    IN IF Truthy(webhook.secret)
       THEN base @@ ("X-Formerr-Signature"
                        :> CreateSignature(payload_str, webhook.secret))
       ELSE base

\* headers of the request (service.py 164-175)
SendHeaders(webhook, payload, payload_str) ==
    LET base == [ ct \in {"Content-Type"} |-> "application/json" ]
                @@ ("User-Agent" :> "Formerr-Webhooks/1.0 (BrunoV7)")
                @@ ("X-Formerr-Event" :> payload.event)
                @@ ("X-Formerr-Delivery" :> payload.delivery_id)
                @@ ("X-Formerr-Timestamp" :> payload.timestamp)
    IN IF Truthy(webhook.secret)
       THEN base @@ ("X-Formerr-Signature"
                        :> CreateSignature(payload_str, webhook.secret))
       ELSE base

\* the POST issued by client.post(webhook.url, content=payload_str, headers)
SendRequest(webhook, payload) ==
    LET payload_str == JsonDumps(payload)
    IN [ method  |-> "POST",
         url     |-> webhook.url,
         content |-> Utf8(payload_str),
         headers |-> SendHeaders(webhook, payload, payload_str) ]

\* IssuePost with one retry of a request that was not answered
IssuePostRetry(log, to, request, net) ==
    IF net.kind = "response"
    THEN Append(log, [ to |-> to, request |-> request, net |-> net ])
    ELSE Append(Append(log, [ to |-> to, request |-> request, net |-> net ]),
                [ to |-> to, request |-> request, net |-> net ])

\* client.post is awaited once (service.py 179-183): the request joins the
\* log of requests the call has issued, with the subscription it went to and
\* what the network did with it
IssuePost(log, to, request, net) ==
    Append(log, [ to |-> to, request |-> request, net |-> net ])

\* SendOutcome without the clause "except httpx.TimeoutException": a timeout
\* is reported with the text of the exception
SendOutcomeNoTimeoutClause(webhook, payload, net) ==
    CASE net.kind = "response" ->
           Returned([ webhook_id |-> webhook.id,
                      success |-> net.status_code < 400,
                      status_code |-> net.status_code,
                      response_time_ms |-> net.elapsed_ms,
                      url |-> webhook.url,
                      delivery_id |-> payload.delivery_id ])
      [] net.kind = "timeout" ->
           Returned([ webhook_id |-> webhook.id,
                      success |-> FALSE,
                      error |-> "ReadTimeout",
                      url |-> webhook.url ])
      [] net.kind = "error" ->
           Returned([ webhook_id |-> webhook.id,
                      success |-> FALSE,
                      error |-> net.msg,
                      url |-> webhook.url ])
      [] OTHER -> Raised(net.msg)

\* SendOutcome with response.raise_for_status() after the request: an answer
\* of 400 or more becomes an exception, reported with its text
SendOutcomeRaisesForStatus(webhook, payload, net) ==
    CASE net.kind = "response" /\ net.status_code < 400 ->
           Returned([ webhook_id |-> webhook.id,
                      success |-> TRUE,
                      status_code |-> net.status_code,
                      response_time_ms |-> net.elapsed_ms,
                      url |-> webhook.url,
                      delivery_id |-> payload.delivery_id ])
      [] net.kind = "response" /\ net.status_code >= 400 ->
           Returned([ webhook_id |-> webhook.id,
                      success |-> FALSE,
                      error |-> "Client error",
                      url |-> webhook.url ])
      [] net.kind = "timeout" ->
           Returned([ webhook_id |-> webhook.id,
                      success |-> FALSE,
                      error |-> "timeout",
                      url |-> webhook.url ])
      [] net.kind = "error" ->
           Returned([ webhook_id |-> webhook.id,
                      success |-> FALSE,
                      error |-> net.msg,
                      url |-> webhook.url ])
      [] OTHER -> Raised(net.msg)

\* SendOutcome counting only the 2xx responses as successes
SendOutcomeOnly2xx(webhook, payload, net) ==
    CASE net.kind = "response" ->
           Returned([ webhook_id |-> webhook.id,
                      success |-> net.status_code >= 200
                                    /\ net.status_code < 300,
                      status_code |-> net.status_code,
                      response_time_ms |-> net.elapsed_ms,
                      url |-> webhook.url,
                      delivery_id |-> payload.delivery_id ])
      [] net.kind = "timeout" ->
           Returned([ webhook_id |-> webhook.id,
                      success |-> FALSE,
                      error |-> "timeout",
                      url |-> webhook.url ])
      [] net.kind = "error" ->
           Returned([ webhook_id |-> webhook.id,
                      success |-> FALSE,
                      error |-> net.msg,
                      url |-> webhook.url ])
      [] OTHER -> Raised(net.msg)

\* what _send_webhook returns or raises when the network does net
\* (service.py 177-207)
SendOutcome(webhook, payload, net) ==
    CASE net.kind = "response" ->
           Returned([ webhook_id |-> webhook.id,
                      success |-> net.status_code < 400,
                      status_code |-> net.status_code,
                      response_time_ms |-> net.elapsed_ms,
                      url |-> webhook.url,
                      delivery_id |-> payload.delivery_id ])
      [] net.kind = "timeout" ->
           Returned([ webhook_id |-> webhook.id,
                      success |-> FALSE,
                      error |-> "timeout",
                      url |-> webhook.url ])
      [] net.kind = "error" ->
           Returned([ webhook_id |-> webhook.id,
                      success |-> FALSE,
                      error |-> net.msg,
                      url |-> webhook.url ])
      [] OTHER -> Raised(net.msg)

\* ---------------------------------------------------------------- the store
\* Matching without the condition on Webhook.active
MatchingInactiveToo(rows, form_id, event) ==
    { w \in DOMAIN rows :
        /\ rows[w].form_id = form_id
        /\ Contains(rows[w].events, event) }

\* Matching without the condition on Webhook.events
MatchingAnyEvent(rows, form_id, event) ==
    { w \in DOMAIN rows :
        /\ rows[w].form_id = form_id
        /\ rows[w].active = TRUE }

\* Matching leaving out the webhooks that have failed before
MatchingHealthyOnly(rows, form_id, event) ==
    { w \in DOMAIN rows :
        /\ rows[w].form_id = form_id
        /\ rows[w].active = TRUE
        /\ rows[w].failure_count = 0
        /\ Contains(rows[w].events, event) }

\* rows of table webhooks matching the query of trigger_webhooks
\* (service.py 109-118)
Matching(rows, form_id, event) ==
    { w \in DOMAIN rows :
        /\ rows[w].form_id = form_id
        /\ rows[w].active = TRUE
        /\ Contains(rows[w].events, event) }

\* the UPDATEs a commit flushes for the session's Webhook objects: an
\* attribute is written when its value differs from the loaded one
Flush(rows, was, now) ==
    [ w \in DOMAIN rows |->
        IF w \in DOMAIN now
        THEN [ rows[w] EXCEPT
                 !.failure_count =
                     IF now[w].failure_count # was[w].failure_count
                     THEN now[w].failure_count ELSE @,
                 !.last_triggered =
                     IF now[w].last_triggered # was[w].last_triggered
                     THEN now[w].last_triggered ELSE @ ]
        ELSE rows[w] ]

\* a commit fails (StaleDataError) when a row the session has changed is no
\* longer in the table
Stale(rows, was, now) ==
    \E w \in DOMAIN now : w \notin DOMAIN rows /\ now[w] # was[w]

\* RecordAttempt without the reset on success
RecordAttemptNoReset(webhook, outcome, now) ==
    IF outcome.kind = "return"
    THEN [ webhook EXCEPT
             !.last_triggered = now,
             !.failure_count = IF ~outcome.value.success THEN @ + 1 ELSE @ ]
    ELSE [ webhook EXCEPT !.failure_count = @ + 1 ]

\* the Webhook object after one iteration of the loop of trigger_webhooks
\* (service.py 136-154)
RecordAttempt(webhook, outcome, now) ==
    IF outcome.kind = "return"
    THEN [ webhook EXCEPT
             !.last_triggered = now,
             !.failure_count = IF ~outcome.value.success THEN @ + 1 ELSE 0 ]
    ELSE [ webhook EXCEPT !.failure_count = @ + 1 ]

\* the result one iteration appends to results (service.py 138, 148-153)
AttemptResult(webhook, outcome) ==
    IF outcome.kind = "return"
    THEN outcome.value
    ELSE [ webhook_id |-> webhook.id,
           success |-> FALSE,
           error |-> outcome.error,
           url |-> webhook.url ]

\* webhook_payload of trigger_webhooks (service.py 124-131)
WebhookPayload(form_id, event, payload, now, u) ==
    [ event |-> event,
      timestamp |-> Isoformat(now),
      form_id |-> form_id,
      data |-> payload,
      delivery_id |-> u,
      source |-> "formerr_brunov7_beast_mode" ]

\* test_payload of test_webhook (service.py 234-245)
TestPayload(webhook, now, u) ==
    [ event |-> "webhook.test",
      timestamp |-> Isoformat(now),
      form_id |-> webhook.form_id,
      data |-> [ test |-> TRUE,
                 message |-> "This is a test webhook from Formerr Beast Mode",
                 brunov7_says |-> "WEBHOOK TEST SUCCESSFUL!" ],
      delivery_id |-> u,
      source |-> "formerr_test_brunov7" ]

\* OwnedWebhook without the condition on Form.owner_id
OwnedWebhookAnyOwner(rows, form_rows, webhook_id, owner_id) ==
    { w \in DOMAIN rows :
        /\ w = webhook_id
        /\ rows[w].form_id \in DOMAIN form_rows }

\* rows matching the query of test_webhook (service.py 218-228): the webhook
\* of that id, joined to a form of that owner
OwnedWebhook(rows, form_rows, webhook_id, owner_id) ==
    { w \in DOMAIN rows :
        /\ w = webhook_id
        /\ rows[w].form_id \in DOMAIN form_rows
        /\ form_rows[rows[w].form_id].owner_id = owner_id }

\* the Webhook object after the send of test_webhook (service.py 249-252)
RecordTest(webhook, result, now) ==
    [ webhook EXCEPT
        !.last_triggered = now,
        !.failure_count = IF ~result.success THEN @ + 1 ELSE @ ]

\* the webhook ids a caller may name: of a webhook created at some time, or
\* never
WebhookIds ==
    { GenerateWebhookId(Utcnow(AtCreate(j, "id")), Uuid4(AtCreate(j, "id"))) :
        j \in 1..(MaxWebhooks + 1) }

\* ---------------------------------------------------------------- behaviour
Init ==
    /\ forms = [ f \in FormIds |->
                   [ owner_id |-> FormOwner[f], submission_count |-> 0,
                     last_submission |-> None ] ]
    /\ submissions = {}
    /\ webhooks = << >>
    /\ created = 0
    /\ pc = [ c \in Calls |-> "idle" ]
    /\ op = [ c \in Calls |-> [kind |-> "none"] ]
    /\ found = [ c \in Calls |-> << >> ]
    /\ sess = [ c \in Calls |-> << >> ]
    /\ loaded = [ c \in Calls |-> << >> ]
    /\ k = [ c \in Calls |-> 0 ]
    /\ envelope = [ c \in Calls |-> None ]
    /\ results = [ c \in Calls |-> << >> ]
    /\ tret = [ c \in Calls |-> NoRet ]
    /\ ret = [ c \in Calls |-> NoRet ]
    /\ posts = [ c \in Calls |-> << >> ]

\* OwnedForm without the condition on Form.owner_id
OwnedFormAnyOwner(form_rows, form_id, owner_id) ==
    { f \in DOMAIN form_rows : f = form_id }

\* rows matching the ownership query of create_webhook and get_form_webhooks
\* (service.py 50-53, 86-89): the form of that id and that owner
OwnedForm(form_rows, form_id, owner_id) ==
    { f \in DOMAIN form_rows :
        /\ f = form_id
        /\ form_rows[f].owner_id = owner_id }

\* what create_webhook returns (service.py 55-56, 75): None when the
\* ownership query has no row, else the webhook it stored
CreateWebhookReturn(form_rows, form_id, owner_id, webhook) ==
    IF OwnedForm(form_rows, form_id, owner_id) = {}
    THEN None
    ELSE << "Webhook", webhook >>

\* get_form_webhooks (service.py 77-97): nothing when the ownership query
\* has no row, else the webhooks of the form; the order of the list is the
\* database's and is left out
GetFormWebhooks(rows, form_rows, form_id, owner_id) ==
    IF OwnedForm(form_rows, form_id, owner_id) = {}
    THEN {}
    ELSE { rows[w] : w \in { v \in DOMAIN rows : rows[v].form_id = form_id } }

\* CreateWebhook storing webhook_data.secret as it came, generating none
CreateWebhookStoresGiven(form_id, url, events, secret_in, active, owner_id) ==
    /\ created < MaxWebhooks
    /\ IF form_id \in DOMAIN forms /\ forms[form_id].owner_id = owner_id
       THEN LET j == created + 1
                webhook_id == GenerateWebhookId(Utcnow(AtCreate(j, "id")),
                                                Uuid4(AtCreate(j, "id")))
                secret == secret_in
                webhook == [ id |-> webhook_id,
                             form_id |-> form_id,
                             url |-> url,
                             events |-> events,
                             secret |-> secret,
                             active |-> active,
                             created_at |-> Utcnow(AtCreate(j, "created_at")),
                             last_triggered |-> None,
                             failure_count |-> 0 ]
            IN /\ webhooks' = webhooks @@ (webhook_id :> webhook)
               /\ created' = created + 1
       ELSE UNCHANGED << webhooks, created >>
    /\ UNCHANGED << forms, submissions, pc, op, locals >>

\* WebhookService.create_webhook (service.py 41-75)
CreateWebhook(form_id, url, events, secret_in, active, owner_id) ==
    /\ created < MaxWebhooks
    /\ IF OwnedForm(forms, form_id, owner_id) # {}
       THEN LET j == created + 1
                webhook_id == GenerateWebhookId(Utcnow(AtCreate(j, "id")),
                                                Uuid4(AtCreate(j, "id")))
                secret == IF Truthy(secret_in) THEN secret_in
                          ELSE GenerateSecret(Uuid4(AtCreate(j, "secret")))
                webhook == [ id |-> webhook_id,
                             form_id |-> form_id,
                             url |-> url,
                             events |-> events,
                             secret |-> secret,
                             active |-> active,
                             created_at |-> Utcnow(AtCreate(j, "created_at")),
                             last_triggered |-> None,
                             failure_count |-> 0 ]
            IN /\ webhooks' = webhooks @@ (webhook_id :> webhook)
               /\ created' = created + 1
       ELSE UNCHANGED << webhooks, created >>
    /\ UNCHANGED << forms, submissions, pc, op, locals >>

\* a caller starts call c: calls are numbered in the order they are made,
\* each after the calls before it have ended
CanStart(c) ==
    /\ pc[c] = "idle"
    /\ \A d \in Calls : d < c => pc[d] = "gone"

\* where a call goes on when trigger_webhooks has returned or raised
AfterTrigger(c) ==
    IF op[c].kind = "create_submission" THEN "cs_return" ELSE "done"

\* trigger_webhooks, the query and the payload (service.py 109-133)
TriggerQuery(c) ==
    /\ pc[c] = "query"
    /\ \E db_ok \in BOOLEAN :
         IF ~db_ok
         THEN /\ tret' = [tret EXCEPT ![c] = Raised("db.execute")]
              /\ pc' = [pc EXCEPT ![c] = AfterTrigger(c)]
              /\ UNCHANGED << found, sess, loaded, envelope >>
         ELSE LET rows == Matching(webhooks, op[c].form_id, op[c].event)
              IN IF rows = {}
                 THEN /\ tret' = [tret EXCEPT ![c] = Returned(<< >>)]
                      /\ pc' = [pc EXCEPT ![c] = AfterTrigger(c)]
                      /\ UNCHANGED << found, sess, loaded, envelope >>
                 ELSE /\ \E order \in Orders(rows) :
                            found' = [found EXCEPT ![c] = order]
                      /\ sess' = [sess EXCEPT ![c] =
                                    [ w \in rows |-> webhooks[w] ]]
                      /\ loaded' = [loaded EXCEPT ![c] =
                                    [ w \in rows |-> webhooks[w] ]]
                      /\ envelope' = [envelope EXCEPT ![c] =
                            WebhookPayload(op[c].form_id, op[c].event,
                                           op[c].payload,
                                           Utcnow(AtCall(c, "payload", 0)),
                                           Uuid4(AtCall(c, "payload", 0)))]
                      /\ pc' = [pc EXCEPT ![c] = "loop"]
                      /\ UNCHANGED tret
    /\ UNCHANGED << store, op, k, results, ret, posts >>

\* TriggerSend without the try/except of the loop: an exception that
\* escapes _send_webhook ends trigger_webhooks
TriggerSendNoExcept(c) ==
    /\ pc[c] = "loop"
    /\ LET w == found[c][k[c] + 1]
           webhook == sess[c][w]
       IN \E net \in Net :
            LET outcome == SendOutcome(webhook, envelope[c], net)
            IN /\ posts' = [posts EXCEPT ![c] =
                     IssuePost(@, w, SendRequest(webhook, envelope[c]), net)]
               /\ IF outcome.kind = "return"
                  THEN /\ results' = [results EXCEPT ![c] =
                              Append(@, outcome.value)]
                       /\ sess' = [sess EXCEPT ![c][w] =
                              RecordAttempt(webhook, outcome,
                                   Utcnow(AtCall(c, "attempt", k[c] + 1)))]
                       /\ pc' = [pc EXCEPT ![c] =
                              IF k[c] + 1 = Len(found[c]) THEN "commit"
                              ELSE "loop"]
                       /\ UNCHANGED tret
                  ELSE /\ tret' = [tret EXCEPT ![c] = outcome]
                       /\ pc' = [pc EXCEPT ![c] = AfterTrigger(c)]
                       /\ UNCHANGED << results, sess >>
    /\ k' = [k EXCEPT ![c] = @ + 1]
    /\ UNCHANGED << store, op, found, loaded, envelope, ret >>

\* TriggerSend with the sends gathered (asyncio.gather): the requests to all
\* matched webhooks are issued together and the stats are set afterwards
TriggerSendGather(c) ==
    /\ pc[c] = "loop"
    /\ \E nets \in [1..Len(found[c]) -> Net] :
         LET sent(i) == [ to |-> found[c][i],
                          request |-> SendRequest(sess[c][found[c][i]],
                                                  envelope[c]),
                          net |-> nets[i] ]
             outcome(i) == SendOutcome(sess[c][found[c][i]], envelope[c],
                                       nets[i])
         IN /\ posts' = [posts EXCEPT ![c] =
                  [ i \in 1..Len(found[c]) |-> sent(i) ]]
            /\ results' = [results EXCEPT ![c] =
                  [ i \in 1..Len(found[c]) |->
                      AttemptResult(sess[c][found[c][i]], outcome(i)) ]]
            /\ sess' = [sess EXCEPT ![c] =
                  [ w \in DOMAIN sess[c] |->
                      LET i == CHOOSE n \in 1..Len(found[c]) : found[c][n] = w
                      IN RecordAttempt(sess[c][w], outcome(i),
                                       Utcnow(AtCall(c, "attempt", i))) ]]
    /\ k' = [k EXCEPT ![c] = Len(found[c])]
    /\ pc' = [pc EXCEPT ![c] = "commit"]
    /\ UNCHANGED << store, op, found, loaded, envelope, tret, ret >>

\* TriggerSend with a commit at the end of each iteration
TriggerSendCommitsEach(c) ==
    /\ pc[c] = "loop"
    /\ LET w == found[c][k[c] + 1]
           webhook == sess[c][w]
       IN \E net \in Net :
            LET outcome == SendOutcome(webhook, envelope[c], net)
                after == RecordAttempt(webhook, outcome,
                                       Utcnow(AtCall(c, "attempt", k[c] + 1)))
            IN /\ posts' = [posts EXCEPT ![c] =
                     IssuePost(@, w, SendRequest(webhook, envelope[c]), net)]
               /\ results' = [results EXCEPT ![c] =
                     Append(@, AttemptResult(webhook, outcome))]
               /\ sess' = [sess EXCEPT ![c][w] = after]
               /\ webhooks' = Flush(webhooks, loaded[c],
                                    [sess[c] EXCEPT ![w] = after])
    /\ k' = [k EXCEPT ![c] = @ + 1]
    /\ pc' = [pc EXCEPT ![c] =
                IF k[c] + 1 = Len(found[c]) THEN "commit" ELSE "loop"]
    /\ UNCHANGED << forms, submissions, created, op, found, loaded, envelope,
                    tret, ret >>

\* trigger_webhooks, one iteration of the loop (service.py 135-154)
TriggerSend(c) ==
    /\ pc[c] = "loop"
    /\ LET w == found[c][k[c] + 1]
           webhook == sess[c][w]
       IN \E net \in Net :
            LET outcome == SendOutcome(webhook, envelope[c], net)
            IN /\ posts' = [posts EXCEPT ![c] =
                     IssuePost(@, w, SendRequest(webhook, envelope[c]), net)]
               /\ results' = [results EXCEPT ![c] =
                     Append(@, AttemptResult(webhook, outcome))]
               /\ sess' = [sess EXCEPT ![c][w] =
                     RecordAttempt(webhook, outcome,
                                   Utcnow(AtCall(c, "attempt", k[c] + 1)))]
    /\ k' = [k EXCEPT ![c] = @ + 1]
    /\ pc' = [pc EXCEPT ![c] =
                IF k[c] + 1 = Len(found[c]) THEN "commit" ELSE "loop"]
    /\ UNCHANGED << store, op, found, loaded, envelope, tret, ret >>

\* TriggerCommit returning the results without having committed
TriggerCommitReturnsUnsaved(c) ==
    /\ pc[c] = "commit"
    /\ tret' = [tret EXCEPT ![c] = Returned(results[c])]
    /\ pc' = [pc EXCEPT ![c] = AfterTrigger(c)]
    /\ UNCHANGED << store, op, found, sess, loaded, k, envelope,
                    results, ret, posts >>

\* TriggerCommit that switches off the webhooks whose attempt failed
TriggerCommitDeactivates(c) ==
    /\ pc[c] = "commit"
    /\ \E db_ok \in BOOLEAN :
         IF db_ok /\ ~Stale(webhooks, loaded[c], sess[c])
         THEN /\ webhooks' =
                   [ w \in DOMAIN webhooks |->
                       LET row == Flush(webhooks, loaded[c], sess[c])[w]
                       IN IF w \in DOMAIN sess[c] /\ row.failure_count > 0
                          THEN [ row EXCEPT !.active = FALSE ]
                          ELSE row ]
              /\ tret' = [tret EXCEPT ![c] = Returned(results[c])]
         ELSE /\ tret' = [tret EXCEPT ![c] = Raised("db.commit")]
              /\ UNCHANGED webhooks
    /\ pc' = [pc EXCEPT ![c] = AfterTrigger(c)]
    /\ UNCHANGED << forms, submissions, created, op, found, sess, loaded, k,
                    envelope, results, ret, posts >>

\* trigger_webhooks, the commit and the return (service.py 156-157)
TriggerCommit(c) ==
    /\ pc[c] = "commit"
    /\ \E db_ok \in BOOLEAN :
         IF db_ok /\ ~Stale(webhooks, loaded[c], sess[c])
         THEN /\ webhooks' = Flush(webhooks, loaded[c], sess[c])
              /\ tret' = [tret EXCEPT ![c] = Returned(results[c])]
         ELSE /\ tret' = [tret EXCEPT ![c] = Raised("db.commit")]
              /\ UNCHANGED webhooks
    /\ pc' = [pc EXCEPT ![c] = AfterTrigger(c)]
    /\ UNCHANGED << forms, submissions, created, op, found, sess, loaded, k, envelope,
                    results, ret, posts >>

\* a call create_submission(db, form_id, answers, submitter_data)
StartCreateSubmission(c, form_id) ==
    /\ CanStart(c)
    /\ op' = [op EXCEPT ![c] = [ kind |-> "create_submission",
                                 form_id |-> form_id,
                                 event |-> SUBMISSION_CREATED,
                                 submission |-> None,
                                 payload |-> None ]]
    /\ pc' = [pc EXCEPT ![c] = "cs_commit"]
    /\ UNCHANGED << store, locals >>

\* CsCommit with db.add(submission) and no commit before the dispatch: the
\* submission is not in the store yet
CsCommitDeferred(c) ==
    /\ pc[c] = "cs_commit"
    /\ LET submission ==
             [ id |-> GenerateSubmissionId(Utcnow(AtCall(c, "id", 0)),
                                           Uuid4(AtCall(c, "id", 0))),
               form_id |-> op[c].form_id,
               submitted_at |-> Utcnow(AtCall(c, "submitted_at", 0)) ]
       IN /\ op' = [op EXCEPT ![c].submission = submission]
          /\ pc' = [pc EXCEPT ![c] = "cs_incr"]
    /\ UNCHANGED << store, found, sess, loaded, k, envelope, results, tret,
                    ret, posts >>

\* create_submission: the submission is added and committed
\* (services.py 214-232); the commit fails on a database fault or when the
\* form row is missing (foreign key)
CsCommit(c) ==
    /\ pc[c] = "cs_commit"
    /\ LET submission ==
             [ id |-> GenerateSubmissionId(Utcnow(AtCall(c, "id", 0)),
                                           Uuid4(AtCall(c, "id", 0))),
               form_id |-> op[c].form_id,
               submitted_at |-> Utcnow(AtCall(c, "submitted_at", 0)) ]
       IN \E db_ok \in BOOLEAN :
            IF db_ok /\ op[c].form_id \in DOMAIN forms
            THEN /\ submissions' = submissions \cup {submission}
                 /\ op' = [op EXCEPT ![c].submission = submission]
                 /\ pc' = [pc EXCEPT ![c] = "cs_incr"]
                 /\ UNCHANGED ret
            ELSE /\ ret' = [ret EXCEPT ![c] = Raised("db.commit")]
                 /\ pc' = [pc EXCEPT ![c] = "done"]
                 /\ UNCHANGED << submissions, op >>
    /\ UNCHANGED << forms, webhooks, created, found, sess, loaded, k, envelope,
                    results, tret, posts >>

\* create_submission: FormsService.increment_submission_count
\* (services.py 235, 183-193) and the payload (services.py 241-248)
CsIncrement(c) ==
    /\ pc[c] = "cs_incr"
    /\ \E db_ok \in BOOLEAN :
         IF db_ok
         THEN /\ forms' = IF op[c].form_id \in DOMAIN forms
                          THEN [forms EXCEPT ![op[c].form_id] =
                                  [ @ EXCEPT !.submission_count = @ + 1,
                                             !.last_submission =
                                        Utcnow(AtCall(c, "last_submission", 0)) ]]
                          ELSE forms
              /\ op' = [op EXCEPT ![c].payload =
                          [ submission_id |-> op[c].submission.id,
                            submitted_at |->
                                Isoformat(op[c].submission.submitted_at) ]]
              /\ pc' = [pc EXCEPT ![c] = "query"]
              /\ UNCHANGED ret
         ELSE /\ ret' = [ret EXCEPT ![c] = Raised("db.commit")]
              /\ pc' = [pc EXCEPT ![c] = "done"]
              /\ UNCHANGED << forms, op >>
    /\ UNCHANGED << submissions, webhooks, created, found, sess, loaded, k, envelope,
                    results, tret, posts >>

\* CsReturn without the try/except around trigger_webhooks
CsReturnPropagates(c) ==
    /\ pc[c] = "cs_return"
    /\ ret' = [ret EXCEPT ![c] = IF tret[c].kind = "raise" THEN tret[c]
                                 ELSE Returned(op[c].submission)]
    /\ pc' = [pc EXCEPT ![c] = "done"]
    /\ UNCHANGED << store, op, found, sess, loaded, k, envelope, results,
                    tret, posts >>

\* create_submission: the except clause and the return (services.py 251-262)
CsReturn(c) ==
    /\ pc[c] = "cs_return"
    /\ ret' = [ret EXCEPT ![c] = Returned(op[c].submission)]
    /\ pc' = [pc EXCEPT ![c] = "done"]
    /\ UNCHANGED << store, op, found, sess, loaded, k, envelope, results,
                    tret, posts >>

\* a call test_webhook(db, webhook_id, owner_id)
StartTestWebhook(c, webhook_id, owner_id) ==
    /\ CanStart(c)
    /\ op' = [op EXCEPT ![c] = [ kind |-> "test_webhook",
                                 webhook_id |-> webhook_id,
                                 owner_id |-> owner_id ]]
    /\ pc' = [pc EXCEPT ![c] = "tw_query"]
    /\ UNCHANGED << store, locals >>

\* TestQuery with result.scalar_one(): no row raises NoResultFound
TestQueryScalarOne(c) ==
    /\ pc[c] = "tw_query"
    /\ \E db_ok \in BOOLEAN :
         IF ~db_ok
         THEN /\ ret' = [ret EXCEPT ![c] = Raised("db.execute")]
              /\ pc' = [pc EXCEPT ![c] = "done"]
              /\ UNCHANGED << found, sess, loaded, envelope >>
         ELSE LET rows == OwnedWebhook(webhooks, forms, op[c].webhook_id,
                                       op[c].owner_id)
              IN IF rows = {}
                 THEN /\ ret' = [ret EXCEPT ![c] = Raised("NoResultFound")]
                      /\ pc' = [pc EXCEPT ![c] = "done"]
                      /\ UNCHANGED << found, sess, loaded, envelope >>
                 ELSE /\ found' = [found EXCEPT ![c] = << op[c].webhook_id >>]
                      /\ sess' = [sess EXCEPT ![c] =
                                    [ w \in rows |-> webhooks[w] ]]
                      /\ loaded' = [loaded EXCEPT ![c] =
                                    [ w \in rows |-> webhooks[w] ]]
                      /\ envelope' = [envelope EXCEPT ![c] =
                            TestPayload(webhooks[op[c].webhook_id],
                                        Utcnow(AtCall(c, "payload", 0)),
                                        Uuid4(AtCall(c, "payload", 0)))]
                      /\ pc' = [pc EXCEPT ![c] = "tw_send"]
                      /\ UNCHANGED ret
    /\ UNCHANGED << store, op, k, results, tret, posts >>

\* test_webhook, the query and the payload (service.py 218-245)
TestQuery(c) ==
    /\ pc[c] = "tw_query"
    /\ \E db_ok \in BOOLEAN :
         IF ~db_ok
         THEN /\ ret' = [ret EXCEPT ![c] = Raised("db.execute")]
              /\ pc' = [pc EXCEPT ![c] = "done"]
              /\ UNCHANGED << found, sess, loaded, envelope >>
         ELSE LET rows == OwnedWebhook(webhooks, forms, op[c].webhook_id,
                                       op[c].owner_id)
              IN IF rows = {}
                 THEN /\ ret' = [ret EXCEPT ![c] =
                            Returned([ success |-> FALSE,
                                       error |-> "Webhook not found" ])]
                      /\ pc' = [pc EXCEPT ![c] = "done"]
                      /\ UNCHANGED << found, sess, loaded, envelope >>
                 ELSE /\ found' = [found EXCEPT ![c] = << op[c].webhook_id >>]
                      /\ sess' = [sess EXCEPT ![c] =
                                    [ w \in rows |-> webhooks[w] ]]
                      /\ loaded' = [loaded EXCEPT ![c] =
                                    [ w \in rows |-> webhooks[w] ]]
                      /\ envelope' = [envelope EXCEPT ![c] =
                            TestPayload(webhooks[op[c].webhook_id],
                                        Utcnow(AtCall(c, "payload", 0)),
                                        Uuid4(AtCall(c, "payload", 0)))]
                      /\ pc' = [pc EXCEPT ![c] = "tw_send"]
                      /\ UNCHANGED ret
    /\ UNCHANGED << store, op, k, results, tret, posts >>

\* test_webhook, the send and the stats (service.py 247-252); an exception
\* that escapes _send_webhook ends the call
TestSend(c) ==
    /\ pc[c] = "tw_send"
    /\ LET w == found[c][1]
           webhook == sess[c][w]
       IN \E net \in Net :
            LET outcome == SendOutcome(webhook, envelope[c], net)
            IN /\ posts' = [posts EXCEPT ![c] =
                     IssuePost(@, w, SendRequest(webhook, envelope[c]), net)]
               /\ IF outcome.kind = "return"
                  THEN /\ results' = [results EXCEPT ![c] =
                              << outcome.value >>]
                       /\ sess' = [sess EXCEPT ![c][w] =
                              RecordTest(webhook, outcome.value,
                                         Utcnow(AtCall(c, "attempt", 1)))]
                       /\ pc' = [pc EXCEPT ![c] = "tw_commit"]
                       /\ UNCHANGED ret
                  ELSE /\ ret' = [ret EXCEPT ![c] = outcome]
                       /\ pc' = [pc EXCEPT ![c] = "done"]
                       /\ UNCHANGED << results, sess >>
    /\ k' = [k EXCEPT ![c] = @ + 1]
    /\ UNCHANGED << store, op, found, loaded, envelope, tret >>

\* test_webhook, the commit and the return (service.py 254-256)
TestCommit(c) ==
    /\ pc[c] = "tw_commit"
    /\ \E db_ok \in BOOLEAN :
         IF db_ok /\ ~Stale(webhooks, loaded[c], sess[c])
         THEN /\ webhooks' = Flush(webhooks, loaded[c], sess[c])
              /\ ret' = [ret EXCEPT ![c] = Returned(results[c][1])]
         ELSE /\ ret' = [ret EXCEPT ![c] = Raised("db.commit")]
              /\ UNCHANGED webhooks
    /\ pc' = [pc EXCEPT ![c] = "done"]
    /\ UNCHANGED << forms, submissions, created, op, found, sess, loaded, k, envelope,
                    results, tret, posts >>

\* call c has ended: its session and its local values are dropped
Finish(c) ==
    /\ pc[c] = "done"
    /\ pc' = [pc EXCEPT ![c] = "gone"]
    /\ op' = [op EXCEPT ![c] = [kind |-> "none"]]
    /\ found' = [found EXCEPT ![c] = << >>]
    /\ sess' = [sess EXCEPT ![c] = << >>]
    /\ loaded' = [loaded EXCEPT ![c] = << >>]
    /\ k' = [k EXCEPT ![c] = 0]
    /\ envelope' = [envelope EXCEPT ![c] = None]
    /\ results' = [results EXCEPT ![c] = << >>]
    /\ tret' = [tret EXCEPT ![c] = NoRet]
    /\ ret' = [ret EXCEPT ![c] = NoRet]
    /\ posts' = [posts EXCEPT ![c] = << >>]
    /\ UNCHANGED store

Next ==
    \/ \E r \in WebhookCreates, o \in Users :
          CreateWebhook(r.form_id, r.url, r.events, r.secret, r.active, o)
    \/ \E c \in Calls, f \in FormIds : StartCreateSubmission(c, f)
    \/ \E c \in Calls : TriggerQuery(c)
    \/ \E c \in Calls : TriggerSend(c)
    \/ \E c \in Calls : TriggerCommit(c)
    \/ \E c \in Calls : CsCommit(c)
    \/ \E c \in Calls : CsIncrement(c)
    \/ \E c \in Calls : CsReturn(c)
    \/ \E c \in Calls, w \in WebhookIds, o \in Users :
          StartTestWebhook(c, w, o)
    \/ \E c \in Calls : TestQuery(c)
    \/ \E c \in Calls : TestSend(c)
    \/ \E c \in Calls : TestCommit(c)
    \/ \E c \in Calls : Finish(c)

Spec == Init /\ [][Next]_vars

\* DeleteForm on a table webhooks whose foreign key does not cascade and is
\* not enforced: the webhooks of the form stay
DeleteFormKeepsWebhooks(form_id, owner_id) ==
    /\ IF form_id \in DOMAIN forms /\ forms[form_id].owner_id = owner_id
       THEN /\ forms' = [ f \in DOMAIN forms \ {form_id} |-> forms[f] ]
            /\ submissions' = { sub \in submissions : sub.form_id # form_id }
            /\ UNCHANGED webhooks
       ELSE UNCHANGED << forms, submissions, webhooks >>
    /\ UNCHANGED << created, pc, op, locals >>

\* FormsService.delete_form (services.py 167-180): the form row is deleted;
\* its submissions go with it (relationship cascade, models.py 117) and so do
\* its webhooks (foreign key ON DELETE CASCADE, models.py 72)
DeleteForm(form_id, owner_id) ==
    /\ IF form_id \in DOMAIN forms /\ forms[form_id].owner_id = owner_id
       THEN /\ forms' = [ f \in DOMAIN forms \ {form_id} |-> forms[f] ]
            /\ submissions' = { sub \in submissions : sub.form_id # form_id }
            /\ webhooks' = [ w \in { x \in DOMAIN webhooks :
                                       webhooks[x].form_id # form_id }
                               |-> webhooks[w] ]
       ELSE UNCHANGED << forms, submissions, webhooks >>
    /\ UNCHANGED << created, pc, op, locals >>

\* The program with forms being deleted by their owners while it runs.
NextDelete ==
    \/ Next
    \/ \E f \in FormIds, o \in Users : DeleteForm(f, o)

SpecDelete == Init /\ [][NextDelete]_vars

\* The column webhooks.secret is nullable (models.py 77): the same program
\* over a store that already holds one row without a secret.
InitNoSecret ==
    /\ \E f \in FormIds, s \in {None, Str("")} :
         LET webhook_id == GenerateWebhookId(Utcnow(AtCreate(0, "id")),
                                             Uuid4(AtCreate(0, "id")))
         IN webhooks = (webhook_id :>
                          [ id |-> webhook_id,
                            form_id |-> f,
                            url |-> "https://a.example/hook",
                            events |-> <<FORM_UPDATED, SUBMISSION_CREATED>>,
                            secret |-> s,
                            active |-> TRUE,
                            created_at |-> Utcnow(AtCreate(0, "created_at")),
                            last_triggered |-> None,
                            failure_count |-> 0 ])
    /\ forms = [ f \in FormIds |->
                   [ owner_id |-> FormOwner[f], submission_count |-> 0,
                     last_submission |-> None ] ]
    /\ submissions = {}
    /\ created = 1
    /\ pc = [ c \in Calls |-> "idle" ]
    /\ op = [ c \in Calls |-> [kind |-> "none"] ]
    /\ found = [ c \in Calls |-> << >> ]
    /\ sess = [ c \in Calls |-> << >> ]
    /\ loaded = [ c \in Calls |-> << >> ]
    /\ k = [ c \in Calls |-> 0 ]
    /\ envelope = [ c \in Calls |-> None ]
    /\ results = [ c \in Calls |-> << >> ]
    /\ tret = [ c \in Calls |-> NoRet ]
    /\ ret = [ c \in Calls |-> NoRet ]
    /\ posts = [ c \in Calls |-> << >> ]

SpecNoSecret == InitNoSecret /\ [][Next]_vars

\* Requests are served concurrently: a call create_submission starts while
\* earlier calls are still at one of their awaits.
StartCreateSubmissionOverlapping(c, form_id) ==
    /\ pc[c] = "idle"
    /\ \A d \in Calls : d < c => pc[d] # "idle"
    /\ op' = [op EXCEPT ![c] = [ kind |-> "create_submission",
                                 form_id |-> form_id,
                                 event |-> SUBMISSION_CREATED,
                                 submission |-> None,
                                 payload |-> None ]]
    /\ pc' = [pc EXCEPT ![c] = "cs_commit"]
    /\ UNCHANGED << store, locals >>

\* the row create_webhook stores for request r when it is the j-th creation
\* (service.py 58-71)
CreatedWebhook(j, r) ==
    [ id |-> GenerateWebhookId(Utcnow(AtCreate(j, "id")),
                               Uuid4(AtCreate(j, "id"))),
      form_id |-> r.form_id,
      url |-> r.url,
      events |-> r.events,
      secret |-> IF Truthy(r.secret) THEN r.secret
                 ELSE GenerateSecret(Uuid4(AtCreate(j, "secret"))),
      active |-> r.active,
      created_at |-> Utcnow(AtCreate(j, "created_at")),
      last_triggered |-> None,
      failure_count |-> 0 ]

\* The store after an owner has created a webhook, before any submission
\* arrives.
InitOverlap ==
    /\ \E r \in WebhookCreates :
         LET row == CreatedWebhook(1, r)
         IN webhooks = (row.id :> row)
    /\ forms = [ f \in FormIds |->
                   [ owner_id |-> FormOwner[f], submission_count |-> 0,
                     last_submission |-> None ] ]
    /\ submissions = {}
    /\ created = 1
    /\ pc = [ c \in Calls |-> "idle" ]
    /\ op = [ c \in Calls |-> [kind |-> "none"] ]
    /\ found = [ c \in Calls |-> << >> ]
    /\ sess = [ c \in Calls |-> << >> ]
    /\ loaded = [ c \in Calls |-> << >> ]
    /\ k = [ c \in Calls |-> 0 ]
    /\ envelope = [ c \in Calls |-> None ]
    /\ results = [ c \in Calls |-> << >> ]
    /\ tret = [ c \in Calls |-> NoRet ]
    /\ ret = [ c \in Calls |-> NoRet ]
    /\ posts = [ c \in Calls |-> << >> ]

NextOverlap ==
    \/ \E c \in Calls, f \in FormIds : StartCreateSubmissionOverlapping(c, f)
    \/ \E c \in Calls : TriggerQuery(c)
    \/ \E c \in Calls : TriggerSend(c)
    \/ \E c \in Calls : TriggerCommit(c)
    \/ \E c \in Calls : CsCommit(c)
    \/ \E c \in Calls : CsIncrement(c)
    \/ \E c \in Calls : CsReturn(c)
    \/ \E c \in Calls : Finish(c)

SpecOverlap == InitOverlap /\ [][NextOverlap]_vars


\* ------------------------------------------------------------------ claims
\* what the claims say of a call, in their own words
Posted(c) == { posts[c][i].to : i \in 1..Len(posts[c]) }
TriggerReturned(c) == tret[c].kind = "return"
Triggering(c) == op[c].kind = "create_submission"
Subscribed(row, form_id, event) ==
    /\ row.form_id = form_id
    /\ row.active
    /\ \E i \in 1..Len(row.events) : row.events[i] = event
TimedOut(p) == p.net.kind = "timeout"
Accepted(p) == p.net.kind = "response" /\ p.net.status_code < 400

\* C1: a request of a trigger_webhooks call for (form_id, event) goes only
\* to a stored webhook of that form that is active and lists the event; a
\* webhook subscribed only to form.updated gets nothing from
\* submission.created.
C1_OnlySubscribed ==
    \A c \in Calls : Triggering(c) =>
        \A w \in Posted(c) :
            /\ w \in DOMAIN webhooks
            /\ Subscribed(webhooks[w], op[c].form_id, op[c].event)

\* C1 happens: a finished trigger for submission.created has delivered to
\* one webhook of the form while an active webhook of the same form that
\* lists only form.updated got nothing.
C1_Witness ==
    \E c \in Calls : \E w \in DOMAIN webhooks :
        /\ TriggerReturned(c)
        /\ op[c].event = SUBMISSION_CREATED
        /\ Posted(c) # {}
        /\ webhooks[w].form_id = op[c].form_id
        /\ webhooks[w].active
        /\ webhooks[w].events = <<FORM_UPDATED>>
        /\ w \notin Posted(c)

\* C2: in one trigger, a subscriber whose request times out gets a failure
\* result with error "timeout" and a subscriber whose request is answered
\* with a status below 400 gets a success result, in whatever order they
\* are processed: the result list a trigger returns holds both.
C2_FailureIsolation ==
    \A c \in Calls : Triggering(c) =>
        /\ Len(results[c]) = Len(posts[c])
        /\ \A i \in 1..Len(posts[c]) :
             /\ results[c][i].webhook_id = posts[c][i].to
             /\ TimedOut(posts[c][i]) =>
                  /\ ~results[c][i].success
                  /\ results[c][i].error = "timeout"
             /\ Accepted(posts[c][i]) => results[c][i].success
        /\ TriggerReturned(c) =>
             /\ tret[c].value = results[c]
             /\ Posted(c) = { found[c][i] : i \in 1..Len(found[c]) }

\* C2 happens: a returned trigger whose first subscriber timed out and
\* whose second subscriber answered 200.
C2_Witness ==
    \E c \in Calls :
        /\ TriggerReturned(c)
        /\ Len(posts[c]) = 2
        /\ TimedOut(posts[c][1])
        /\ Accepted(posts[c][2])
        /\ tret[c].value[2].success
        /\ ~tret[c].value[1].success

\* C3: when trigger_webhooks has returned, the stored failure_count of a
\* matched webhook is 0 if its attempt succeeded and the value the call
\* read plus 1 if it failed.
C3_CounterSemantics ==
    \A c \in Calls :
        TriggerReturned(c) =>
            \A i \in 1..Len(tret[c].value) :
                LET r == tret[c].value[i]
                    w == r.webhook_id
                IN /\ w \in DOMAIN webhooks
                   /\ webhooks[w].failure_count =
                        IF r.success THEN 0
                        ELSE loaded[c][w].failure_count + 1

\* C3 happens: a success has reset a counter that was not 0, in a trigger
\* in which another attempt failed.
C3_Witness ==
    \E c \in Calls :
        /\ TriggerReturned(c)
        /\ \E i \in 1..Len(tret[c].value) :
             LET r == tret[c].value[i]
             IN /\ r.success
                /\ loaded[c][r.webhook_id].failure_count > 0
                /\ webhooks[r.webhook_id].failure_count = 0
        /\ \E i \in 1..Len(tret[c].value) : ~tret[c].value[i].success

\* C4: once create_submission has reached the dispatch, the submission is
\* in the store and stays there, and the call returns it, whatever
\* trigger_webhooks did: all deliveries failed, or trigger_webhooks raised.
C4_WritePathIsolation ==
    \A c \in Calls :
        (op[c].kind = "create_submission" /\ tret[c].kind # "none") =>
            /\ op[c].submission \in submissions
            /\ pc[c] = "done" => ret[c] = Returned(op[c].submission)

\* C4 happens: trigger_webhooks raised after a failed delivery and
\* create_submission returned the stored submission.
C4_Witness ==
    \E c \in Calls :
        /\ op[c].kind = "create_submission"
        /\ pc[c] = "done"
        /\ tret[c].kind = "raise"
        /\ Len(posts[c]) > 0
        /\ \A i \in 1..Len(results[c]) : ~results[c][i].success
        /\ ret[c].kind = "return"
        /\ ret[c].value \in submissions

\* what a receiver reads in a request: a header, and a member of the JSON
\* body
Header(p, name) == p.request.headers[name]
HasHeader(p, name) == name \in DOMAIN p.request.headers
BodyMember(p, key) ==
    LET members == p.request.content[2]
    IN members[CHOOSE i \in 1..Len(members) : members[i][1] = key][2]

\* C5: the delivery ids sent by one trigger to its subscribers (header
\* X-Formerr-Delivery and member delivery_id of the body) are pairwise
\* distinct.
C5_DistinctDeliveryIds ==
    \A c \in Calls : \A i, j \in 1..Len(posts[c]) :
        i # j =>
            /\ Header(posts[c][i], "X-Formerr-Delivery")
                 # Header(posts[c][j], "X-Formerr-Delivery")
            /\ BodyMember(posts[c][i], "delivery_id")
                 # BodyMember(posts[c][j], "delivery_id")

\* C6: the X-Formerr-Signature header of a request to a webhook with a
\* secret is what the receiver computes from the body it received and the
\* shared secret: "sha256=" and the HMAC-SHA256 of those bytes.
C6_SignatureOfSentBody ==
    \A c \in Calls : \A i \in 1..Len(posts[c]) :
        LET p == posts[c][i]
            secret == webhooks[p.to].secret
        IN secret \notin {None, Str("")} =>
             /\ HasHeader(p, "X-Formerr-Signature")
             /\ Header(p, "X-Formerr-Signature") =
                  <<"sha256=", HmacSha256Hex(Utf8(secret), p.request.content)>>

\* C6 happens: requests have gone to a webhook with a supplied secret and
\* to a webhook with a generated one, both signed.
C6_Witness ==
    \E c \in Calls : \E i, j \in 1..Len(posts[c]) :
        /\ webhooks[posts[c][i].to].secret = Str("whsec_abc")
        /\ webhooks[posts[c][j].to].secret \notin {None, Str(""), Str("whsec_abc")}
        /\ HasHeader(posts[c][i], "X-Formerr-Signature")
        /\ HasHeader(posts[c][j], "X-Formerr-Signature")

\* C7: a request carries the header X-Formerr-Signature exactly when the
\* webhook it goes to has a secret (neither None nor empty).
C7_SignatureIffSecret ==
    \A c \in Calls : \A i \in 1..Len(posts[c]) :
        HasHeader(posts[c][i], "X-Formerr-Signature")
            <=> webhooks[posts[c][i].to].secret \notin {None, Str("")}

\* C7 happens: one trigger has sent a request without the header to a
\* webhook without a secret and a request with it to a webhook with one.
C7_Witness ==
    \E c \in Calls : \E i, j \in 1..Len(posts[c]) :
        /\ webhooks[posts[c][i].to].secret \in {None, Str("")}
        /\ ~HasHeader(posts[c][i], "X-Formerr-Signature")
        /\ webhooks[posts[c][j].to].secret \notin {None, Str("")}
        /\ HasHeader(posts[c][j], "X-Formerr-Signature")

\* C8: when the query of trigger_webhooks is answered and no stored webhook
\* is subscribed, the call returns the empty list and issues no request;
\* a call that has returned the empty list has issued no request.
C8_NoSubscriberNoIO ==
    [][ \A c \in Calls :
          /\ ( /\ pc[c] = "query"
               /\ pc'[c] # "query"
               /\ tret'[c].kind # "raise"
               /\ ~ \E w \in DOMAIN webhooks :
                       Subscribed(webhooks[w], op[c].form_id, op[c].event) )
             => ( /\ tret'[c] = Returned(<< >>)
                  /\ pc'[c] # "loop"
                  /\ posts'[c] = << >> )
          /\ tret'[c] = Returned(<< >>) => posts'[c] = << >> ]_vars

\* C8 happens: a trigger has returned the empty list without a request
\* while the form has a webhook that lists the event but is inactive.
C8_Witness ==
    \E c \in Calls : \E w \in DOMAIN webhooks :
        /\ tret[c] = Returned(<< >>)
        /\ posts[c] = << >>
        /\ webhooks[w].form_id = op[c].form_id
        /\ ~webhooks[w].active
        /\ \E i \in 1..Len(webhooks[w].events) :
               webhooks[w].events[i] = op[c].event

\* C9: trigger_webhooks raises only on a database fault, never on what a
\* delivery did; the webhooks it attempts are the subscribed ones; and the
\* list it returns holds exactly one result for each of them, tagged with
\* its id.
C9_ErrorsCaptured ==
    [][ \A c \in Calls :
          /\ (pc[c] = "query" /\ pc'[c] = "loop") =>
               /\ { found'[c][i] : i \in 1..Len(found'[c]) } =
                    { w \in DOMAIN webhooks :
                        Subscribed(webhooks[w], op[c].form_id, op[c].event) }
               /\ \A i, j \in 1..Len(found'[c]) :
                    i # j => found'[c][i] # found'[c][j]
          /\ tret'[c].kind = "raise" =>
               tret'[c].error \in {"db.execute", "db.commit"}
          /\ tret'[c].kind = "return" =>
               /\ Len(tret'[c].value) = Len(found'[c])
               /\ \A i \in 1..Len(found'[c]) :
                    /\ "webhook_id" \in DOMAIN tret'[c].value[i]
                    /\ tret'[c].value[i].webhook_id = found'[c][i] ]_vars

\* C9 happens: a trigger has returned two results although one send raised
\* and the other timed out.
C9_Witness ==
    \E c \in Calls :
        /\ TriggerReturned(c)
        /\ Len(tret[c].value) = 2
        /\ \E i, j \in 1..2 :
             /\ posts[c][i].net.kind = "raise"
             /\ posts[c][j].net.kind = "timeout"
             /\ tret[c].value[i].webhook_id = posts[c][i].to
             /\ tret[c].value[j].webhook_id = posts[c][j].to

\* number of requests call c has issued to webhook w
PostCount(c, w) == Cardinality({ i \in 1..Len(posts[c]) : posts[c][i].to = w })

\* C10: a trigger never issues a second request to a webhook, whatever
\* the first one did, and when its loop has ended it has issued exactly one
\* request to each matched webhook.
C10_NoRetries ==
    \A c \in Calls :
        /\ \A w \in DOMAIN webhooks : PostCount(c, w) <= 1
        /\ Posted(c) \subseteq { found[c][i] : i \in 1..Len(found[c]) }
        /\ k[c] = Len(found[c]) =>
             \A i \in 1..Len(found[c]) : PostCount(c, found[c][i]) = 1

\* C10 happens: a trigger has ended its loop over two webhooks, the first
\* request timed out and the second was refused, one request each.
C10_Witness ==
    \E c \in Calls :
        /\ Len(found[c]) = 2
        /\ k[c] = 2
        /\ posts[c][1].net.kind = "timeout"
        /\ posts[c][2].net.kind = "error"
        /\ PostCount(c, found[c][1]) = 1
        /\ PostCount(c, found[c][2]) = 1

\* C11: when the loop of trigger_webhooks has attempted every matched
\* webhook, the call ends by returning the collected results, also when the
\* commit of the counters and timestamps fails; it never raises then.
C11_CommitFaultSwallowed ==
    \A c \in Calls :
        ( /\ Len(found[c]) > 0
          /\ k[c] = Len(found[c])
          /\ tret[c].kind # "none" )
        => tret[c] = Returned(results[c])

\* a result of call c says that its attempt on webhook w failed
FailedOn(c, w) ==
    \E i \in 1..Len(results[c]) :
        /\ results[c][i].webhook_id = w
        /\ ~results[c][i].success

\* C12: when two trigger_webhooks calls have both attempted the same webhook,
\* both attempts failed and both calls have returned (no other call was
\* made), the stored failure_count is the initial value, 0, plus 2.
C12_NoLostCounterUpdate ==
    \A c, d \in Calls : \A w \in DOMAIN webhooks :
        ( /\ c # d
          /\ TriggerReturned(c) /\ FailedOn(c, w)
          /\ TriggerReturned(d) /\ FailedOn(d, w)
          /\ \A e \in Calls \ {c, d} : pc[e] = "idle" )
        => webhooks[w].failure_count = 2

\* C13: on the step by which trigger_webhooks returns a non-empty result
\* list, the store holds, for every webhook in the list, the failure_count
\* and the last_triggered the call has set on it.
C13_CommittedBeforeReturn ==
    [][ \A c \in Calls :
          ( /\ tret[c].kind = "none"
            /\ tret'[c].kind = "return"
            /\ tret'[c].value # << >> )
          => \A i \in 1..Len(tret'[c].value) :
               LET w == tret'[c].value[i].webhook_id
               IN /\ w \in DOMAIN webhooks'
                  /\ sess[c][w].failure_count # loaded[c][w].failure_count
                       => webhooks'[w].failure_count = sess[c][w].failure_count
                  /\ sess[c][w].last_triggered # loaded[c][w].last_triggered
                       => webhooks'[w].last_triggered
                            = sess[c][w].last_triggered ]_vars

\* C13 happens: a trigger has returned two results, a success that reset a
\* counter and a failure that raised one, and the store shows both counters
\* and this call's timestamps.
C13_Witness ==
    \E c \in Calls :
        /\ TriggerReturned(c)
        /\ Len(tret[c].value) = 2
        /\ \E i, j \in 1..2 :
             LET wi == tret[c].value[i].webhook_id
                 wj == tret[c].value[j].webhook_id
             IN /\ tret[c].value[i].success
                /\ loaded[c][wi].failure_count = 1
                /\ webhooks[wi].failure_count = 0
                /\ webhooks[wi].last_triggered = Utcnow(AtCall(c, "attempt", i))
                /\ ~tret[c].value[j].success
                /\ webhooks[wj].failure_count = loaded[c][wj].failure_count + 1
                /\ webhooks[wj].last_triggered = Utcnow(AtCall(c, "attempt", j))

\* C14: dispatch does not block the producer: while deliveries of its
\* submission are still pending (the loop of trigger_webhooks has webhooks
\* left to attempt), create_submission is able to return its result.
C14_ReturnDoesNotWait ==
    \A c \in Calls :
        ( /\ op[c].kind = "create_submission"
          /\ pc[c] = "loop"
          /\ k[c] < Len(found[c]) )
        => ENABLED CsReturn(c)

\* C15: the result of a delivery that was answered with an HTTP response
\* has success true exactly when the status code is below 400, and records
\* the status code whether it succeeded or not.
C15_SuccessIffBelow400 ==
    \A c \in Calls : \A i \in 1..Len(posts[c]) :
        posts[c][i].net.kind = "response" =>
            LET r == results[c][i]
            IN /\ r.webhook_id = posts[c][i].to
               /\ r.success <=> posts[c][i].net.status_code < 400
               /\ "status_code" \in DOMAIN r
               /\ r.status_code = posts[c][i].net.status_code

\* C15 happens: one trigger got the answers 399 and 400, the first result
\* is a success and the second a failure, each with its status code.
C15_Witness ==
    \E c \in Calls :
        /\ Len(results[c]) = 2
        /\ posts[c][1].net.kind = "response"
        /\ posts[c][2].net.kind = "response"
        /\ results[c][1].success /\ results[c][1].status_code = 399
        /\ ~results[c][2].success /\ results[c][2].status_code = 400

C17_TimestampEveryAttempt ==
    \A c \in Calls : \A i \in 1..Len(results[c]) :
        LET r == results[c][i]
            w == r.webhook_id
        IN Triggering(c) =>
           /\ sess[c][w].failure_count =
                IF r.success THEN 0 ELSE loaded[c][w].failure_count + 1
           /\ sess[c][w].last_triggered # None
           /\ sess[c][w].last_triggered # loaded[c][w].last_triggered
           /\ TriggerReturned(c) =>
                webhooks[w].last_triggered = sess[c][w].last_triggered

\* C18: whatever the operation (trigger_webhooks or test_webhook), a request
\* goes only to a webhook whose active flag is true and whose events list
\* holds the event type the request carries.
C18_OnlyActiveAndSubscribed ==
    \A c \in Calls : \A i \in 1..Len(posts[c]) :
        LET p == posts[c][i]
            row == webhooks[p.to]
        IN /\ row.active
           /\ \E n \in 1..Len(row.events) :
                  row.events[n] = Header(p, "X-Formerr-Event")

\* C18, amended: a request of trigger_webhooks goes only to an active
\* webhook of the form whose events list holds the event sent; a request of
\* test_webhook carries the event "webhook.test" and goes to the webhook the
\* caller named, which belongs to a form of the caller, whatever its active
\* flag and its events list.
C18_DeliveryTargets ==
    \A c \in Calls : \A i \in 1..Len(posts[c]) :
        LET p == posts[c][i]
            row == webhooks[p.to]
        IN IF op[c].kind = "test_webhook"
           THEN /\ p.to = op[c].webhook_id
                /\ forms[row.form_id].owner_id = op[c].owner_id
                /\ Header(p, "X-Formerr-Event") = "webhook.test"
                /\ BodyMember(p, "event") = "webhook.test"
                /\ Len(posts[c]) = 1
           ELSE /\ row.active
                /\ row.form_id = op[c].form_id
                /\ Header(p, "X-Formerr-Event") = op[c].event
                /\ \E n \in 1..Len(row.events) : row.events[n] = op[c].event

\* C18 happens: a manual test by the owner has sent a request to an
\* inactive webhook.
C18_Witness ==
    \E c \in Calls :
        /\ op[c].kind = "test_webhook"
        /\ Len(posts[c]) = 1
        /\ ~webhooks[posts[c][1].to].active
        /\ forms[webhooks[posts[c][1].to].form_id].owner_id = op[c].owner_id

\* C19: no step of the service changes the active flag, the events or the
\* form of a stored webhook; and a trigger whose query was
\* answered attempts every stored webhook that is subscribed to its event
\* and has failed before (failure_count above 0): when its loop ends it has
\* sent a request to each of them, and it returns the empty list only when
\* there is none.
C19_NeverDropped ==
    [][ /\ \A w \in DOMAIN webhooks \cap DOMAIN webhooks' :
             /\ webhooks'[w].active = webhooks[w].active
             /\ webhooks'[w].events = webhooks[w].events
             /\ webhooks'[w].form_id = webhooks[w].form_id
        /\ \A c \in Calls :
             LET degraded ==
                   { w \in DOMAIN webhooks :
                       /\ Subscribed(webhooks[w], op[c].form_id, op[c].event)
                       /\ webhooks[w].failure_count > 0 }
             IN /\ (pc[c] = "query" /\ tret'[c] = Returned(<< >>))
                     => degraded = {}
                /\ (pc[c] = "loop" /\ pc'[c] # "loop")
                     => /\ pc'[c] = "commit"
                        /\ degraded \subseteq Posted(c)' ]_vars

\* C19 happens: a trigger has ended its loop having sent a request to a
\* webhook that is active, subscribed, and had failed before.
C19_Witness ==
    \E c \in Calls : \E w \in Posted(c) :
        /\ Triggering(c)
        /\ pc[c] = "commit"
        /\ loaded[c][w].failure_count > 0
        /\ webhooks[w].failure_count > 0
        /\ webhooks[w].active

\* C20: when the query of test_webhook is answered and the id names no
\* stored webhook, the call ends there: it returns success false with the
\* error "Webhook not found", raises nothing, has sent no request and leaves
\* every stored webhook as it was.
C20_UnknownIdStructuredFailure ==
    [][ \A c \in Calls :
          ( /\ pc[c] = "tw_query"
            /\ pc'[c] # "tw_query"
            /\ ret'[c] # Raised("db.execute")
            /\ op[c].webhook_id \notin DOMAIN webhooks )
          => /\ ret'[c] = Returned([ success |-> FALSE,
                                     error |-> "Webhook not found" ])
             /\ pc'[c] = "done"
             /\ posts'[c] = << >>
             /\ webhooks' = webhooks ]_vars

\* C20 happens: a test of an id that names no stored webhook has ended with
\* the not-found result, no request, beside a stored webhook that is as it
\* was created.
C20_Witness ==
    \E c \in Calls : \E w \in DOMAIN webhooks :
        /\ op[c].kind = "test_webhook"
        /\ op[c].webhook_id \notin DOMAIN webhooks
        /\ pc[c] = "done"
        /\ ret[c] = Returned([ success |-> FALSE,
                               error |-> "Webhook not found" ])
        /\ posts[c] = << >>
        /\ webhooks[w].failure_count = 0
        /\ webhooks[w].last_triggered = None

\* C21: no stored webhook belongs to a form that is not in the store: when
\* a form has been deleted its webhooks are gone and none can be added.
\* A trigger whose query runs for a form that is not in the store gets no
\* row: it returns the empty list and sends no request.
C21_CascadeDelete ==
    [][ /\ \A w \in DOMAIN webhooks' : webhooks'[w].form_id \in DOMAIN forms'
        /\ \A c \in Calls :
             ( /\ pc[c] = "query"
               /\ pc'[c] # "query"
               /\ op[c].form_id \notin DOMAIN forms
               /\ tret'[c].kind # "raise" )
             => /\ tret'[c] = Returned(<< >>)
                /\ posts'[c] = << >> ]_vars

\* C21 happens: a webhook had been stored for a form, the form was deleted
\* (the other form is still there), the store holds no webhook, and a
\* trigger for the deleted form has returned the empty list without a
\* request.
C21_Witness ==
    \E c \in Calls :
        /\ Triggering(c)
        /\ op[c].form_id \notin DOMAIN forms
        /\ FormIds \ {op[c].form_id} \subseteq DOMAIN forms
        /\ tret[c] = Returned(<< >>)
        /\ posts[c] = << >>
        /\ created > 0
        /\ DOMAIN webhooks = {}

\* C22: every result of an attempt, successful or failed, carries the id of
\* the webhook and the delivery id of the request that was sent for it.
C22_ResultCarriesIds ==
    \A c \in Calls : \A i \in 1..Len(results[c]) :
        LET r == results[c][i]
            p == posts[c][i]
        IN /\ "webhook_id" \in DOMAIN r
           /\ r.webhook_id = p.to
           /\ "delivery_id" \in DOMAIN r
           /\ r.delivery_id = Header(p, "X-Formerr-Delivery")
           /\ r.delivery_id = BodyMember(p, "delivery_id")

\* C23: in every request the headers X-Formerr-Event, X-Formerr-Delivery and
\* X-Formerr-Timestamp equal the members event, delivery_id and timestamp of
\* the JSON body of the same request.
C23_HeadersMatchBody ==
    \A c \in Calls : \A i \in 1..Len(posts[c]) :
        LET p == posts[c][i]
        IN /\ Header(p, "X-Formerr-Event") = BodyMember(p, "event")
           /\ Header(p, "X-Formerr-Delivery") = BodyMember(p, "delivery_id")
           /\ Header(p, "X-Formerr-Timestamp") = BodyMember(p, "timestamp")

\* C23 happens: a trigger has sent two requests for submission.created,
\* each with the event, the delivery id and the timestamp of its body in its
\* headers, the body carrying the payload of the submission.
C23_Witness ==
    \E c \in Calls :
        /\ Triggering(c)
        /\ Len(posts[c]) = 2
        /\ \A i \in 1..2 :
             /\ Header(posts[c][i], "X-Formerr-Event") = SUBMISSION_CREATED
             /\ BodyMember(posts[c][i], "event") = SUBMISSION_CREATED
             /\ BodyMember(posts[c][i], "data") = op[c].payload
             /\ Header(posts[c][i], "X-Formerr-Delivery")
                  = Uuid4(AtCall(c, "payload", 0))
             /\ Header(posts[c][i], "X-Formerr-Timestamp")
                  = Isoformat(Utcnow(AtCall(c, "payload", 0)))

\* call c has made its attempts and committed them
Committed(c) ==
    \/ Triggering(c) /\ TriggerReturned(c)
    \/ op[c].kind = "test_webhook" /\ ret[c].kind = "return"

\* C24: failure_count counts the failed attempts since the last successful
\* one: it is never negative, and when a call (a trigger or a manual test)
\* has committed its attempts, the counter of a webhook it attempted is 0
\* after a success and one more than the call found after a failure.
C24_ConsecutiveFailures ==
    /\ \A w \in DOMAIN webhooks : webhooks[w].failure_count >= 0
    /\ \A c \in Calls : Committed(c) =>
         \A i \in 1..Len(results[c]) :
             LET r == results[c][i]
                 w == r.webhook_id
             IN webhooks[w].failure_count =
                  IF r.success THEN 0 ELSE loaded[c][w].failure_count + 1

\* a secret made by generate_secret: the prefix whsec_ and a drawn part
Generated(secret) == Len(secret) = 3 /\ secret[2] = "whsec_"

\* the requests a stored row can have come from
RequestOf(row) ==
    { r \in WebhookCreates :
        /\ r.form_id = row.form_id
        /\ r.url = row.url
        /\ r.events = row.events
        /\ r.active = row.active }

\* C25: a row that create_webhook adds holds the secret of the request when
\* the request supplied one and a generated secret when it supplied none
\* (absent or empty); so the secret of a stored webhook is never None or
\* empty, and every request sent carries a signature.
C25_SecretAlwaysPresent ==
    [][ /\ \A w \in DOMAIN webhooks' \ DOMAIN webhooks :
             /\ RequestOf(webhooks'[w]) # {}
             /\ \A r \in RequestOf(webhooks'[w]) :
                  IF r.secret \notin {None, Str("")}
                  THEN webhooks'[w].secret = r.secret
                  ELSE Generated(webhooks'[w].secret)
        /\ \A w \in DOMAIN webhooks' :
             webhooks'[w].secret \notin {None, Str("")}
        /\ \A c \in Calls : \A i \in 1..Len(posts'[c]) :
             HasHeader(posts'[c][i], "X-Formerr-Signature") ]_vars

\* C25 happens: the store holds a webhook with the secret its request
\* supplied and a webhook whose request supplied none, with a generated
\* secret, and a signed request has gone to the second.
C25_Witness ==
    \E c \in Calls : \E v, w \in DOMAIN webhooks :
        /\ webhooks[v].secret = Str("whsec_abc")
        /\ Generated(webhooks[w].secret)
        /\ \E r \in RequestOf(webhooks[w]) : r.secret \in {None, Str("")}
        /\ w \in Posted(c)
        /\ \A i \in 1..Len(posts[c]) :
             HasHeader(posts[c][i], "X-Formerr-Signature")

\* C26: a trigger issues its requests one at a time, in the order of the
\* rows it matched: when it issues a request every earlier request has its
\* outcome and its result, and the list it returns holds the results in the
\* order of the requests.
C26_OneAfterAnother ==
    [][ \A c \in Calls : (Triggering(c) /\ pc'[c] # "gone") =>
          /\ Len(posts'[c]) >= Len(posts[c])
          /\ Len(posts'[c]) > Len(posts[c]) =>
               /\ Len(results[c]) = Len(posts[c])
               /\ Len(posts'[c]) = Len(posts[c]) + 1
               /\ \A i \in 1..Len(posts[c]) : posts'[c][i] = posts[c][i]
               /\ posts'[c][Len(posts'[c])].to = found[c][Len(posts'[c])]
               /\ Len(results'[c]) = Len(posts'[c])
          /\ tret'[c].kind = "return" =>
               /\ Len(tret'[c].value) = Len(posts'[c])
               /\ \A i \in 1..Len(posts'[c]) :
                    tret'[c].value[i].webhook_id = posts'[c][i].to ]_vars

\* C26 happens: a trigger matched two webhooks, attempted the one created
\* second first, its request timed out, then the other answered, and the
\* returned results are in that order.
C26_Witness ==
    \E c \in Calls :
        /\ TriggerReturned(c)
        /\ Len(tret[c].value) = 2
        /\ found[c][1] = GenerateWebhookId(Utcnow(AtCreate(2, "id")),
                                           Uuid4(AtCreate(2, "id")))
        /\ posts[c][1].net.kind = "timeout"
        /\ posts[c][2].net.kind = "response"
        /\ tret[c].value[1].webhook_id = found[c][1]
        /\ tret[c].value[2].webhook_id = found[c][2]

\* C27: the counters and timestamps a trigger sets reach the store all at
\* once, by its commit after the last attempt: while it attempts, and when
\* its commit has failed, the store holds for every matched webhook the
\* failure_count and last_triggered the call read; when it has returned
\* results, the store holds those the call set, for every one of them.
C27_SingleCommit ==
    \A c \in Calls : Triggering(c) =>
        /\ (pc[c] \in {"loop", "commit"} \/ tret[c] = Raised("db.commit")) =>
             \A w \in DOMAIN loaded[c] :
                 /\ webhooks[w].failure_count = loaded[c][w].failure_count
                 /\ webhooks[w].last_triggered = loaded[c][w].last_triggered
        /\ (TriggerReturned(c) /\ tret[c].value # << >>) =>
             \A w \in DOMAIN sess[c] :
                 /\ webhooks[w].failure_count = sess[c][w].failure_count
                 /\ webhooks[w].last_triggered = sess[c][w].last_triggered

\* C27 happens: a trigger attempted two webhooks, both attempts failed, its
\* commit failed, and the store shows neither counter raised.
C27_Witness ==
    \E c \in Calls :
        /\ tret[c] = Raised("db.commit")
        /\ Len(results[c]) = 2
        /\ \A w \in DOMAIN sess[c] :
             /\ sess[c][w].failure_count = 1
             /\ webhooks[w].failure_count = 0
             /\ webhooks[w].last_triggered = None

\* C28: a step of trigger_webhooks leaves the set of stored webhooks, the
\* forms and the submissions as they are; of a webhook it matched it changes
\* at most failure_count and last_triggered; a webhook it did not match
\* keeps every field.
C28_TriggerFrame ==
    [][ \A c \in Calls :
          ( /\ pc[c] \in {"query", "loop", "commit"}
            /\ (pc'[c] # pc[c] \/ k'[c] # k[c]) )
          => /\ DOMAIN webhooks' = DOMAIN webhooks
             /\ forms' = forms
             /\ submissions' = submissions
             /\ \A w \in DOMAIN webhooks :
                  IF w \in DOMAIN loaded'[c]
                  THEN webhooks'[w] =
                         [ webhooks[w] EXCEPT
                             !.failure_count = webhooks'[w].failure_count,
                             !.last_triggered = webhooks'[w].last_triggered ]
                  ELSE webhooks'[w] = webhooks[w] ]_vars

\* C28 happens: a trigger has returned results; a webhook it attempted has
\* a new last_triggered and a raised failure_count and is still active, and
\* a webhook that did not match is as it was created.
C28_Witness ==
    \E c \in Calls : \E v, w \in DOMAIN webhooks :
        /\ TriggerReturned(c)
        /\ v \in Posted(c)
        /\ webhooks[v].last_triggered # None
        /\ webhooks[v].failure_count = 1
        /\ webhooks[v].active
        /\ w \notin DOMAIN loaded[c]
        /\ webhooks[w].last_triggered = None
        /\ webhooks[w].failure_count = 0

\* C29: for a caller who does not own the form (or when the form is not in
\* the store) create_webhook returns None and its step stores nothing, and
\* get_form_webhooks returns nothing; a test_webhook whose query is answered
\* for a stored webhook of a form of another owner returns the not-found
\* result, sends no request and leaves every stored webhook as it was.
\* Hence a step that stores a webhook is a create_webhook of the owner of
\* its form.
C29_OwnershipCheck ==
    [][ /\ \A r \in WebhookCreates, o \in Users :
             /\ ~( /\ r.form_id \in DOMAIN forms
                   /\ forms[r.form_id].owner_id = o )
                  => /\ \A wh \in {webhooks[w] : w \in DOMAIN webhooks} :
                          CreateWebhookReturn(forms, r.form_id, o, wh) = None
                     /\ GetFormWebhooks(webhooks, forms, r.form_id, o) = {}
             /\ ( /\ CreateWebhook(r.form_id, r.url, r.events, r.secret,
                                   r.active, o)
                  /\ webhooks' # webhooks )
                  => /\ r.form_id \in DOMAIN forms
                     /\ forms[r.form_id].owner_id = o
        /\ \A w \in DOMAIN webhooks' \ DOMAIN webhooks :
             \E r \in WebhookCreates :
                 /\ r.form_id = webhooks'[w].form_id
                 /\ CreateWebhook(r.form_id, r.url, r.events, r.secret,
                                  r.active, forms[r.form_id].owner_id)
        /\ \A c \in Calls :
             ( /\ pc[c] = "tw_query"
               /\ pc'[c] # "tw_query"
               /\ ret'[c] # Raised("db.execute")
               /\ op[c].webhook_id \in DOMAIN webhooks
               /\ forms[webhooks[op[c].webhook_id].form_id].owner_id
                    # op[c].owner_id )
             => /\ ret'[c] = Returned([ success |-> FALSE,
                                        error |-> "Webhook not found" ])
                /\ pc'[c] = "done"
                /\ posts'[c] = << >>
                /\ webhooks' = webhooks ]_vars

\* C29 happens: a test of a stored webhook by a user who does not own its
\* form has ended with the not-found result and no request, the webhook is
\* as it was created, the owner of the form is listed that webhook and the
\* other user nothing, and a create_webhook can still be called.
C29_Witness ==
    \E c \in Calls : \E o \in Users :
        /\ op[c].kind = "test_webhook"
        /\ pc[c] = "done"
        /\ op[c].webhook_id \in DOMAIN webhooks
        /\ LET wh == webhooks[op[c].webhook_id]
           IN /\ forms[wh.form_id].owner_id = o
              /\ op[c].owner_id # o
              /\ wh.failure_count = 0
              /\ wh.last_triggered = None
              /\ wh \in GetFormWebhooks(webhooks, forms, wh.form_id, o)
              /\ GetFormWebhooks(webhooks, forms, wh.form_id,
                                 op[c].owner_id) = {}
        /\ ret[c] = Returned([ success |-> FALSE,
                               error |-> "Webhook not found" ])
        /\ posts[c] = << >>
        /\ created < MaxWebhooks

\* C30: while a create_submission is in its trigger_webhooks (from the query
\* on, so before and at every request it sends), as long as the form has not
\* been deleted meanwhile, the submission is in the store and the form's
\* submission_count and last_submission have been written by this call;
\* every request it sent is a submission.created that carries the id of that
\* submission.
C30_StoredBeforeDelivery ==
    \A c \in Calls :
        ( /\ Triggering(c)
          /\ (pc[c] \in {"query", "loop", "commit"} \/ posts[c] # << >>) )
        => /\ op[c].form_id \in DOMAIN forms
                => /\ op[c].submission \in submissions
                   /\ forms[op[c].form_id].submission_count >= 1
                   /\ forms[op[c].form_id].last_submission =
                        Utcnow(AtCall(c, "last_submission", 0))
           /\ \A i \in 1..Len(posts[c]) :
                /\ BodyMember(posts[c][i], "event") = SUBMISSION_CREATED
                /\ BodyMember(posts[c][i], "data").submission_id =
                     op[c].submission.id

\* C30 happens: a create_submission has sent a request that carries the id
\* of its submission, the submission is in the store and the form counts it.
C30_Witness ==
    \E c \in Calls :
        /\ Triggering(c)
        /\ Len(posts[c]) >= 1
        /\ BodyMember(posts[c][1], "data").submission_id =
             op[c].submission.id
        /\ op[c].submission \in submissions
        /\ forms[op[c].form_id].submission_count >= 1

=============================================================================
